---- MODULE Spec2Model ----
(***************************************************************************)
(* Model of the mailify probe pipeline: Client.ValidateEmail               *)
(* (validator.go) with the helpers it calls, GetMailServers and            *)
(* GetSMTPServer (servers.go), GetHostname and TryConnectingSMTP           *)
(* (validator.go).  One call of ValidateEmail is followed statement by     *)
(* statement; every answer of the resolver, of the network and of the      *)
(* remote SMTP server is a nondeterministic input of the step that reads   *)
(* it.  Strings are Go strings: strings.Contains, strings.Split and        *)
(* strings.TrimSuffix are computed on the characters.                      *)
(*                                                                         *)
(* Spec follows one call alone.  SpecTwo follows two calls on two clients  *)
(* whose steps are interleaved in any order; SpecAgain follows a second    *)
(* call on the same client against an environment that answers as it did   *)
(* during the first one.                                                   *)
(***************************************************************************)
EXTENDS Integers, Sequences, FiniteSets, TLC

VARIABLES
    SenderEmail,     \* Client.SenderEmail (client.go:6)
    recipientEmail,  \* argument of ValidateEmail
    pc,              \* position of the call
    mx,              \* answer of resolver.LookupMX read by GetMailServers
    mailServers,     \* mailServers of ValidateEmail (validator.go:216)
    localName,       \* localName of ValidateEmail (validator.go:226)
    hostIdx,         \* position of the range loop over mailServers
    lastErr,         \* lastErr of ValidateEmail (validator.go:237)
    ips,             \* ips of GetSMTPServer (servers.go:73)
    ipIdx,           \* position of the range loop over ips
    portIdx,         \* position of the range loop over ports
    smtpServer,      \* smtpServer of ValidateEmail (validator.go:239)
    useTLS,          \* useTLS argument of the current TryConnectingSMTP call
    tryResult,       \* result of TryConnectingSMTP (validator.go:73)
    tryErr,          \* error returned by TryConnectingSMTP
    rcptErr,         \* err of client.Rcpt (validator.go:146)
    starttlsExt,     \* whether the server advertised STARTTLS in its EHLO reply
    sent,            \* SMTP commands written on the current connection
    tls,             \* whether the current connection runs over TLS
    address,         \* address of the last net.Dial (servers.go:84, validator.go:84)
    connOpen,        \* number of TCP connections currently open
    netOps,          \* kinds of network operation performed so far in the call
    result,          \* *ValidationResult returned by ValidateEmail
    mode,            \* how calls are run: one alone, two interleaved, one after the other
    self,            \* the call that is running: 1 or 2
    parked,          \* the variables of the call that is not running
    tape             \* what the calls asked of the environment and what it answered

vars == <<SenderEmail, recipientEmail, pc, mx, mailServers, localName, hostIdx,
          lastErr, ips, ipIdx, portIdx, smtpServer, useTLS, tryResult, tryErr,
          rcptErr, starttlsExt, sent, tls, address, connOpen, netOps, result,
          mode, self, parked, tape>>

-----------------------------------------------------------------------------
(* Bounds of the model *)

\* longest MX answer the resolver gives
MaxHosts == 2
\* longest address list a host name resolves to
MaxIPs == 2

-----------------------------------------------------------------------------
(* Go values *)

\* the nil error
NilErr == "<nil>"
\* a nil *ValidationResult / a nil *SMTPDetails
NilPtr == [nil |-> TRUE]

\* all sequences over S of length at most n
SeqUpTo(S, n) == UNION {[1..k -> S] : k \in 0..n}

\* strings.Contains(s, substr)
Contains(s, substr) ==
    \E i \in 1..(Len(s) - Len(substr) + 1) : SubSeq(s, i, i + Len(substr) - 1) = substr

\* strings.Index(s, substr), 1-based; 0 when substr is not in s
Index(s, substr) ==
    IF Contains(s, substr)
    THEN CHOOSE i \in 1..(Len(s) - Len(substr) + 1) :
            /\ SubSeq(s, i, i + Len(substr) - 1) = substr
            /\ \A j \in 1..(i - 1) : SubSeq(s, j, j + Len(substr) - 1) # substr
    ELSE 0

\* strings.Split(s, sep) for a non-empty sep
RECURSIVE Split(_, _)
Split(s, sep) ==
    IF Index(s, sep) = 0
    THEN <<s>>
    ELSE <<SubSeq(s, 1, Index(s, sep) - 1)>>
            \o Split(SubSeq(s, Index(s, sep) + Len(sep), Len(s)), sep)

\* strings.TrimSuffix(s, suffix)
TrimSuffix(s, suffix) ==
    IF Len(s) >= Len(suffix) /\ SubSeq(s, Len(s) - Len(suffix) + 1, Len(s)) = suffix
    THEN SubSeq(s, 1, Len(s) - Len(suffix))
    ELSE s

-----------------------------------------------------------------------------
(* Inputs and environment answers *)

\* addresses handed to ValidateEmail
Emails == {"u@d.com", "ud.com", "a@b@c", "@d.com", "u@", "@", ""}

\* sender identities a client is built with (NewClient)
Senders == {"me@s.org"}

\* host names in MX records, as the resolver returns them
MXHosts == {"mx1.d.com.", "mx2.d.com"}

\* addresses a host name resolves to (ip.String() of them)
IPs == {"10.0.0.1", "2001:db8::1"}

\* error text of a failed DNS query, connect or SMTP read
DNSErrText == "no such host"
IOErrText == "i/o timeout"
SMTPErrText == "421 service not available"

\* errors client.Rcpt returns: textproto.Error prints "%03d %s" of the reply;
\* an I/O error prints the failed operation with the local address
RcptErrs == {
    "450 4.7.1 Client host rejected: cannot find your reverse hostname",
    "450 4.7.25 Client host rejected: cannot find your reverse hostname",
    "450 4.7.1 Greylisted, earlier reply was 550 5.1.1",
    "450 4.7.1 cannot find your reverse hostname, 250 after fix",
    "550 5.1.1 User unknown",
    "550 No such user here",
    "550 5.7.1 Relaying from 10.0.0.250 denied",
    "550 5.1.1 <u250@d.com>: User unknown",
    "452 4.2.2 Mailbox full",
    "451 4.3.0 queue id 250 deferred",
    "read tcp 10.0.0.250:25: i/o timeout" }

\* answers of os.Hostname()
HostnameAnswers == {[host |-> "", err |-> "hostname unavailable"],
                    [host |-> "box", err |-> NilErr]}

\* one address of the machine with the answer net.LookupAddr gives for it
SelfAddrs == {[v4 |-> FALSE, names |-> <<>>, err |-> NilErr],
              [v4 |-> TRUE, names |-> <<>>, err |-> DNSErrText],
              [v4 |-> TRUE, names |-> <<>>, err |-> NilErr],
              [v4 |-> TRUE, names |-> <<"box.example.net.">>, err |-> NilErr]}

\* answers of net.LookupIP(hostname) in GetHostname
SelfIPAnswers == {[addrs |-> <<>>, err |-> DNSErrText]}
                   \cup {[addrs |-> a, err |-> NilErr] : a \in SeqUpTo(SelfAddrs, MaxIPs)}

\* answers of resolver.LookupMX(domain): the Go resolver refuses a name that
\* is no domain name (the empty string) without a query
MXAnswers(domain) ==
    IF domain = ""
    THEN {[records |-> <<>>, err |-> DNSErrText]}
    ELSE {[records |-> <<>>, err |-> DNSErrText]}
            \cup {[records |-> r, err |-> NilErr] : r \in SeqUpTo(MXHosts, MaxHosts)}

\* answers of net.LookupIP(mailServer) in GetSMTPServer
IPAnswers == {[ips |-> <<>>, err |-> DNSErrText]}
               \cup {[ips |-> a, err |-> NilErr] : a \in SeqUpTo(IPs, MaxIPs)}

-----------------------------------------------------------------------------
(* Pure parts of the code *)

\* a ValidationResult value (types.go:19-30); unset fields are Go zero values
Verdict(isValid, isCatchAll, hasMX, msg, details) ==
    [IsValid |-> isValid, IsCatchAll |-> isCatchAll, HasMX |-> hasMX,
     ErrorMessage |-> msg, SMTPDetails |-> details]

\* the verdict of validator.go:198-201 and 206-209
InvalidFormat == Verdict(FALSE, FALSE, FALSE, "Invalid email format", NilPtr)

\* the verdict of validator.go:218-222
NoMXRecords == Verdict(FALSE, FALSE, FALSE, "No MX records found", NilPtr)

FormatOKContainsOnly(email) == Contains(email, "@")

\* the format check of ValidateEmail (validator.go:197-210)
FormatOK(email) ==
    /\ Contains(email, "@")
    /\ Len(Split(email, "@")) = 2

\* domain := parts[1] (validator.go:212)
Domain(email) == Split(email, "@")[2]

\* GetMailServers handing the records' hosts on as the resolver spelled them
GetMailServersKeepDot(ans) ==
    IF ans.err # NilErr
    THEN [mailServers |-> <<>>, err |-> "error looking up MX records: " \o ans.err]
    ELSE [mailServers |-> ans.records, err |-> NilErr]

\* GetMailServers on the resolver's answer (servers.go:40-54)
GetMailServers(ans) ==
    IF ans.err # NilErr
    THEN [mailServers |-> <<>>, err |-> "error looking up MX records: " \o ans.err]
    ELSE [mailServers |-> [i \in 1..Len(ans.records) |-> TrimSuffix(ans.records[i], ".")],
          err |-> NilErr]

\* GetHostname on the answers of os.Hostname, LookupIP and LookupAddr
\* (validator.go:21-45)
GetHostname(h, a) ==
    IF h.err # NilErr
    THEN [name |-> "verifier.local", err |-> "failed to get hostname: " \o h.err]
    ELSE IF a.err # NilErr
    THEN [name |-> h.host,
          err |-> "failed to lookup IP for hostname " \o h.host \o ": " \o a.err]
    ELSE LET hits == {i \in 1..Len(a.addrs) :
                        /\ a.addrs[i].v4
                        /\ a.addrs[i].err = NilErr
                        /\ Len(a.addrs[i].names) > 0}
         IN  IF hits # {}
             THEN LET first == CHOOSE i \in hits : \A j \in hits : i <= j
                  IN  [name |-> TrimSuffix(a.addrs[first].names[1], "."), err |-> NilErr]
             ELSE [name |-> h.host \o ".local", err |-> NilErr]

\* the network operations GetHostname performs on those answers
GetHostnameOps(h, a) ==
    IF h.err # NilErr THEN {}
    ELSE IF a.err # NilErr THEN {"SelfLookupIP"}
    ELSE IF \E i \in 1..Len(a.addrs) : a.addrs[i].v4 THEN {"SelfLookupIP", "SelfLookupAddr"}
    ELSE {"SelfLookupIP"}

\* ports := []string{"587", "25", "465"} (servers.go:81)
ports == <<"587", "25", "465">>

\* ip.To4() != nil, on the printed address
IsIPv4(ip) == ~Contains(ip, ":")

\* the dial address (servers.go:84-91, validator.go:84-92)
Address(ip, port) ==
    IF IsIPv4(ip) THEN ip \o ":" \o port ELSE "[" \o ip \o "]:" \o port

\* the SMTPDetails GetSMTPServer returns (servers.go:103-108)
SMTPDetails(mailServer, port, ip) ==
    [Server |-> mailServer, Port |-> port, Protocol |-> "SMTP", UsedTLS |-> FALSE,
     IPAddress |-> ip]

NewResultNoMX == Verdict(FALSE, FALSE, FALSE, "", NilPtr)

\* result := &ValidationResult{IsValid: false, HasMX: true} (validator.go:73-76)
NewResult == Verdict(FALSE, FALSE, TRUE, "", NilPtr)

\* Classify with the 550 rule also setting IsCatchAll
ClassifyCatchAllOn550(res, err) ==
    IF err = NilErr
    THEN [result |-> [res EXCEPT !.IsValid = TRUE], err |-> NilErr]
    ELSE IF Contains(err, "450 4.7.1")
    THEN [result |-> [res EXCEPT !.IsValid = TRUE,
                                 !.ErrorMessage = "Reverse DNS lookup required but email might be valid"],
          err |-> NilErr]
    ELSE IF Contains(err, "550 5.1.1")
    THEN [result |-> [res EXCEPT !.IsCatchAll = TRUE, !.ErrorMessage = "User doesn't exist"],
          err |-> NilErr]
    ELSE IF Contains(err, "250")
    THEN [result |-> [res EXCEPT !.IsValid = TRUE, !.IsCatchAll = TRUE], err |-> NilErr]
    ELSE [result |-> res, err |-> err]

\* Classify with the success path also setting IsCatchAll
ClassifySuccessAsCatchAll(res, err) ==
    IF err = NilErr
    THEN [result |-> [res EXCEPT !.IsValid = TRUE, !.IsCatchAll = TRUE], err |-> NilErr]
    ELSE IF Contains(err, "450 4.7.1")
    THEN [result |-> [res EXCEPT !.IsValid = TRUE,
                                 !.ErrorMessage = "Reverse DNS lookup required but email might be valid"],
          err |-> NilErr]
    ELSE IF Contains(err, "550 5.1.1")
    THEN [result |-> [res EXCEPT !.ErrorMessage = "User doesn't exist"], err |-> NilErr]
    ELSE IF Contains(err, "250")
    THEN [result |-> [res EXCEPT !.IsValid = TRUE, !.IsCatchAll = TRUE], err |-> NilErr]
    ELSE [result |-> res, err |-> err]

\* Classify with the 250 rule tried before the 450 and 550 rules
Classify250First(res, err) ==
    IF err = NilErr
    THEN [result |-> [res EXCEPT !.IsValid = TRUE], err |-> NilErr]
    ELSE IF Contains(err, "250")
    THEN [result |-> [res EXCEPT !.IsValid = TRUE, !.IsCatchAll = TRUE], err |-> NilErr]
    ELSE IF Contains(err, "450 4.7.1")
    THEN [result |-> [res EXCEPT !.IsValid = TRUE,
                                 !.ErrorMessage = "Reverse DNS lookup required but email might be valid"],
          err |-> NilErr]
    ELSE IF Contains(err, "550 5.1.1")
    THEN [result |-> [res EXCEPT !.ErrorMessage = "User doesn't exist"], err |-> NilErr]
    ELSE [result |-> res, err |-> err]

\* Classify with the 250 rule returning the error instead of a verdict
ClassifyNo250Rule(res, err) ==
    IF err = NilErr
    THEN [result |-> [res EXCEPT !.IsValid = TRUE], err |-> NilErr]
    ELSE IF Contains(err, "450 4.7.1")
    THEN [result |-> [res EXCEPT !.IsValid = TRUE,
                                 !.ErrorMessage = "Reverse DNS lookup required but email might be valid"],
          err |-> NilErr]
    ELSE IF Contains(err, "550 5.1.1")
    THEN [result |-> [res EXCEPT !.ErrorMessage = "User doesn't exist"], err |-> NilErr]
    ELSE [result |-> res, err |-> err]

\* Classify wrapping an error that matches no rule, as the earlier steps do
ClassifyWrapsOther(res, err) ==
    IF err = NilErr
    THEN [result |-> [res EXCEPT !.IsValid = TRUE], err |-> NilErr]
    ELSE IF Contains(err, "450 4.7.1")
    THEN [result |-> [res EXCEPT !.IsValid = TRUE,
                                 !.ErrorMessage = "Reverse DNS lookup required but email might be valid"],
          err |-> NilErr]
    ELSE IF Contains(err, "550 5.1.1")
    THEN [result |-> [res EXCEPT !.ErrorMessage = "User doesn't exist"], err |-> NilErr]
    ELSE IF Contains(err, "250")
    THEN [result |-> [res EXCEPT !.IsValid = TRUE, !.IsCatchAll = TRUE], err |-> NilErr]
    ELSE [result |-> res, err |-> "RCPT TO failed: " \o err]

\* the classification of the recipient step and the return of
\* TryConnectingSMTP (validator.go:149-171); res is result before it
Classify(res, err) ==
    IF err = NilErr
    THEN [result |-> [res EXCEPT !.IsValid = TRUE], err |-> NilErr]
    ELSE IF Contains(err, "450 4.7.1")
    THEN [result |-> [res EXCEPT !.IsValid = TRUE,
                                 !.ErrorMessage = "Reverse DNS lookup required but email might be valid"],
          err |-> NilErr]
    ELSE IF Contains(err, "550 5.1.1")
    THEN [result |-> [res EXCEPT !.ErrorMessage = "User doesn't exist"], err |-> NilErr]
    ELSE IF Contains(err, "250")
    THEN [result |-> [res EXCEPT !.IsValid = TRUE, !.IsCatchAll = TRUE], err |-> NilErr]
    ELSE [result |-> res, err |-> err]

-----------------------------------------------------------------------------
(* The call *)

\* the local variables of ValidateEmail when the call is entered
Fresh ==
    /\ pc = "start"
    /\ mx = [records |-> <<>>, err |-> NilErr]
    /\ mailServers = <<>>
    /\ localName = ""
    /\ hostIdx = 0
    /\ lastErr = NilErr
    /\ ips = <<>>
    /\ ipIdx = 0
    /\ portIdx = 0
    /\ smtpServer = NilPtr
    /\ useTLS = FALSE
    /\ tryResult = NilPtr
    /\ tryErr = NilErr
    /\ rcptErr = NilErr
    /\ starttlsExt = FALSE
    /\ sent = <<>>
    /\ tls = FALSE
    /\ address = ""
    /\ connOpen = 0
    /\ netOps = {}
    /\ result = NilPtr

Init ==
    /\ SenderEmail \in Senders
    /\ recipientEmail \in Emails
    /\ Fresh
    /\ mode = "alone"
    /\ self = 1
    /\ parked = NilPtr
    /\ tape = <<>>

\* the environment answers a to the question q of the running call.  When
\* two calls are run one after the other against an environment that behaves
\* identically, the first call's questions and answers are kept and the
\* environment gives the second call the same answer when it gets the same
\* question at the same point.
Asks(q, a) ==
    CASE mode = "record" -> tape' = Append(tape, [q |-> q, a |-> a])
      [] mode = "replay" ->
            /\ (tape # <<>> /\ Head(tape).q = q) => a = Head(tape).a
            /\ tape' = IF tape = <<>> THEN <<>> ELSE Tail(tape)
      [] OTHER -> tape' = tape

\* validator.go:197-210, the address is refused
FormatReject ==
    /\ pc = "start"
    /\ ~FormatOK(recipientEmail)
    /\ result' = InvalidFormat
    /\ pc' = "done"
    /\ UNCHANGED <<SenderEmail, recipientEmail, mx, mailServers, localName, hostIdx,
                   lastErr, ips, ipIdx, portIdx, smtpServer, useTLS, tryResult, tryErr,
                   rcptErr, starttlsExt, sent, tls, address, connOpen, netOps>>
    /\ UNCHANGED <<mode, self, parked, tape>>

\* validator.go:197-212, the address passes the format check
FormatAccept ==
    /\ pc = "start"
    /\ FormatOK(recipientEmail)
    /\ pc' = "mx"
    /\ UNCHANGED <<SenderEmail, recipientEmail, mx, mailServers, localName, hostIdx,
                   lastErr, ips, ipIdx, portIdx, smtpServer, useTLS, tryResult, tryErr,
                   rcptErr, starttlsExt, sent, tls, address, connOpen, netOps, result>>
    /\ UNCHANGED <<mode, self, parked, tape>>

\* validator.go:216-223 with GetMailServers (servers.go:28-55)
LookupMX ==
    /\ pc = "mx"
    /\ \E ans \in MXAnswers(Domain(recipientEmail)) :
        LET r == GetMailServers(ans) IN
        /\ mx' = ans
        /\ Asks("LookupMX " \o Domain(recipientEmail), ans)
        /\ netOps' = netOps \cup {"LookupMX"}
        /\ IF r.err # NilErr
           THEN /\ result' = NoMXRecords
                /\ pc' = "done"
                /\ UNCHANGED mailServers
           ELSE /\ mailServers' = r.mailServers
                /\ pc' = "hostname"
                /\ UNCHANGED result
    /\ UNCHANGED <<SenderEmail, recipientEmail, localName, hostIdx,
                   lastErr, ips, ipIdx, portIdx, smtpServer, useTLS, tryResult, tryErr,
                   rcptErr, starttlsExt, sent, tls, address, connOpen>>
    /\ UNCHANGED <<mode, self, parked>>

\* validator.go:226-237 with GetHostname (validator.go:21-45)
LocalName ==
    /\ pc = "hostname"
    /\ \E h \in HostnameAnswers, a \in SelfIPAnswers :
        LET r == GetHostname(h, a) IN
        /\ localName' = r.name
        /\ Asks("Hostname", <<h, a>>)
        /\ netOps' = netOps \cup GetHostnameOps(h, a)
        /\ IF r.err # NilErr
           THEN /\ result' = Verdict(FALSE, FALSE, TRUE, r.err, NilPtr)
                /\ pc' = "done"
                /\ UNCHANGED hostIdx
           ELSE /\ hostIdx' = 1
                /\ pc' = "loop"
                /\ UNCHANGED result
    /\ UNCHANGED <<SenderEmail, recipientEmail, mx, mailServers,
                   lastErr, ips, ipIdx, portIdx, smtpServer, useTLS, tryResult, tryErr,
                   rcptErr, starttlsExt, sent, tls, address, connOpen>>
    /\ UNCHANGED <<mode, self, parked>>

\* the mail server of the current loop iteration (validator.go:238)
mailServer == mailServers[hostIdx]

\* LookupIPFail returning the locator error as the verdict instead of
\* continuing with the next mail server
LookupIPFailReturns ==
    /\ pc = "loop"
    /\ hostIdx <= Len(mailServers)
    /\ \E ans \in IPAnswers :
        /\ ans.err # NilErr
        /\ Asks("LookupIP " \o mailServer, ans)
        /\ lastErr' = "failed to lookup IP for " \o mailServer \o ": " \o ans.err
    /\ netOps' = netOps \cup {"LookupIP"}
    /\ result' = Verdict(FALSE, FALSE, TRUE, lastErr', NilPtr)
    /\ pc' = "done"
    /\ UNCHANGED <<SenderEmail, recipientEmail, mx, mailServers, localName, hostIdx,
                   ips, ipIdx, portIdx, smtpServer, useTLS, tryResult, tryErr,
                   rcptErr, starttlsExt, sent, tls, address, connOpen>>
    /\ UNCHANGED <<mode, self, parked>>

\* GetSMTPServer fails on the IP lookup (servers.go:73-76); the loop records
\* the error and continues (validator.go:239-243)
LookupIPFail ==
    /\ pc = "loop"
    /\ hostIdx <= Len(mailServers)
    /\ \E ans \in IPAnswers :
        /\ ans.err # NilErr
        /\ Asks("LookupIP " \o mailServer, ans)
        /\ lastErr' = "failed to lookup IP for " \o mailServer \o ": " \o ans.err
    /\ netOps' = netOps \cup {"LookupIP"}
    /\ hostIdx' = hostIdx + 1
    /\ UNCHANGED <<SenderEmail, recipientEmail, pc, mx, mailServers, localName,
                   ips, ipIdx, portIdx, smtpServer, useTLS, tryResult, tryErr,
                   rcptErr, starttlsExt, sent, tls, address, connOpen, result>>
    /\ UNCHANGED <<mode, self, parked>>

\* GetSMTPServer resolves the mail server (servers.go:73-79)
LookupIPOk ==
    /\ pc = "loop"
    /\ hostIdx <= Len(mailServers)
    /\ \E ans \in IPAnswers :
        /\ ans.err = NilErr
        /\ Asks("LookupIP " \o mailServer, ans)
        /\ ips' = ans.ips
    /\ netOps' = netOps \cup {"LookupIP"}
    /\ ipIdx' = 1
    /\ portIdx' = 1
    /\ pc' = "probe"
    /\ UNCHANGED <<SenderEmail, recipientEmail, mx, mailServers, localName, hostIdx,
                   lastErr, smtpServer, useTLS, tryResult, tryErr,
                   rcptErr, starttlsExt, sent, tls, address, connOpen, result>>
    /\ UNCHANGED <<mode, self, parked>>

\* ProbeRefused walking the pairs port by port, every address for each port
ProbeRefusedPortMajor ==
    /\ pc = "probe"
    /\ ipIdx <= Len(ips)
    /\ address' = Address(ips[ipIdx], ports[portIdx])
    /\ netOps' = netOps \cup {"Probe"}
    /\ Asks("Probe " \o address', FALSE)
    /\ IF ipIdx < Len(ips)
       THEN ipIdx' = ipIdx + 1 /\ UNCHANGED portIdx
       ELSE IF portIdx < Len(ports)
            THEN ipIdx' = 1 /\ portIdx' = portIdx + 1
            ELSE ipIdx' = ipIdx + 1 /\ portIdx' = 1
    /\ UNCHANGED <<SenderEmail, recipientEmail, pc, mx, mailServers, localName, hostIdx,
                   lastErr, ips, smtpServer, useTLS, tryResult, tryErr,
                   rcptErr, starttlsExt, sent, tls, connOpen, result>>
    /\ UNCHANGED <<mode, self, parked>>

\* one net.DialTimeout of GetSMTPServer fails: next port, then next address
\* (servers.go:82-100)
ProbeRefused ==
    /\ pc = "probe"
    /\ ipIdx <= Len(ips)
    /\ address' = Address(ips[ipIdx], ports[portIdx])
    /\ netOps' = netOps \cup {"Probe"}
    /\ Asks("Probe " \o address', FALSE)
    /\ IF portIdx < Len(ports)
       THEN portIdx' = portIdx + 1 /\ UNCHANGED ipIdx
       ELSE portIdx' = 1 /\ ipIdx' = ipIdx + 1
    /\ UNCHANGED <<SenderEmail, recipientEmail, pc, mx, mailServers, localName, hostIdx,
                   lastErr, ips, smtpServer, useTLS, tryResult, tryErr,
                   rcptErr, starttlsExt, sent, tls, connOpen, result>>
    /\ UNCHANGED <<mode, self, parked>>

\* one net.DialTimeout of GetSMTPServer succeeds (servers.go:97-101)
ProbeAccepted ==
    /\ pc = "probe"
    /\ ipIdx <= Len(ips)
    /\ address' = Address(ips[ipIdx], ports[portIdx])
    /\ netOps' = netOps \cup {"Probe"}
    /\ Asks("Probe " \o address', TRUE)
    /\ connOpen' = connOpen + 1
    /\ pc' = "located"
    /\ UNCHANGED <<SenderEmail, recipientEmail, mx, mailServers, localName, hostIdx,
                   lastErr, ips, ipIdx, portIdx, smtpServer, useTLS, tryResult, tryErr,
                   rcptErr, starttlsExt, sent, tls, result>>
    /\ UNCHANGED <<mode, self, parked>>

\* Located going straight to the attempt with useTLS = true
LocatedStartsWithTLS ==
    /\ pc = "located"
    /\ connOpen' = connOpen - 1
    /\ smtpServer' = SMTPDetails(mailServer, ports[portIdx], ips[ipIdx])
    /\ ips' = <<>>
    /\ ipIdx' = 0
    /\ portIdx' = 0
    /\ useTLS' = TRUE
    /\ pc' = "dial"
    /\ UNCHANGED <<SenderEmail, recipientEmail, mx, mailServers, localName, hostIdx,
                   lastErr, tryResult, tryErr,
                   rcptErr, starttlsExt, sent, tls, address, netOps, result>>
    /\ UNCHANGED <<mode, self, parked, tape>>

\* GetSMTPServer returns the endpoint and its deferred conn.Close() runs
\* (servers.go:101-108); ValidateEmail goes on to the attempt with
\* useTLS = false (validator.go:249)
Located ==
    /\ pc = "located"
    /\ connOpen' = connOpen - 1
    /\ smtpServer' = SMTPDetails(mailServer, ports[portIdx], ips[ipIdx])
    /\ ips' = <<>>
    /\ ipIdx' = 0
    /\ portIdx' = 0
    /\ useTLS' = FALSE
    /\ pc' = "dial"
    /\ UNCHANGED <<SenderEmail, recipientEmail, mx, mailServers, localName, hostIdx,
                   lastErr, tryResult, tryErr,
                   rcptErr, starttlsExt, sent, tls, address, netOps, result>>
    /\ UNCHANGED <<mode, self, parked, tape>>

\* no address and port accepted (servers.go:111), the variables of
\* GetSMTPServer go out of scope; the loop records the error and continues
\* (validator.go:240-243)
Unreachable ==
    /\ pc = "probe"
    /\ ipIdx > Len(ips)
    /\ lastErr' = "no available SMTP servers found for " \o mailServer
    /\ hostIdx' = hostIdx + 1
    /\ ips' = <<>>
    /\ ipIdx' = 0
    /\ portIdx' = 0
    /\ address' = ""
    /\ pc' = "loop"
    /\ UNCHANGED <<SenderEmail, recipientEmail, mx, mailServers, localName,
                   smtpServer, useTLS, tryResult, tryErr,
                   rcptErr, starttlsExt, sent, tls, connOpen, netOps, result>>
    /\ UNCHANGED <<mode, self, parked, tape>>

\* TryConnectingSMTP up to the dial (validator.go:73-113)
Dial ==
    /\ pc = "dial"
    /\ tryResult' = NewResult
    /\ address' = Address(smtpServer.IPAddress, smtpServer.Port)
    /\ netOps' = netOps \cup {"Connect"}
    /\ sent' = <<>>
    /\ rcptErr' = NilErr
    /\ starttlsExt' = FALSE
    /\ \E ok \in BOOLEAN :
        /\ Asks("Dial " \o address', ok)
        /\ IF ok
           THEN /\ connOpen' = connOpen + 1
                /\ tls' = (smtpServer.Port = "465")
                /\ tryErr' = NilErr
                /\ pc' = "newclient"
           ELSE /\ tryErr' = "connection failed: " \o IOErrText
                /\ tls' = FALSE
                /\ pc' = "tried"
                /\ UNCHANGED connOpen
    /\ UNCHANGED <<SenderEmail, recipientEmail, mx, mailServers, localName, hostIdx,
                   lastErr, ips, ipIdx, portIdx, smtpServer, useTLS, result>>
    /\ UNCHANGED <<mode, self, parked>>

\* NewClient returning on its error without the connection being closed
NewClientLeavesConnOpen ==
    /\ pc = "newclient"
    /\ \E ok \in BOOLEAN :
        /\ Asks("NewClient", ok)
        /\ IF ok
           THEN /\ pc' = "hello"
                /\ UNCHANGED <<tryErr, connOpen>>
           ELSE /\ tryErr' = "SMTP client creation failed: " \o SMTPErrText
                /\ UNCHANGED connOpen
                /\ pc' = "tried"
    /\ UNCHANGED <<SenderEmail, recipientEmail, mx, mailServers, localName, hostIdx,
                   lastErr, ips, ipIdx, portIdx, smtpServer, useTLS, tryResult,
                   rcptErr, starttlsExt, sent, tls, address, netOps, result>>
    /\ UNCHANGED <<mode, self, parked>>

\* smtp.NewClient reads the server's greeting line (validator.go:115-119)
NewClient ==
    /\ pc = "newclient"
    /\ \E ok \in BOOLEAN :
        /\ Asks("NewClient", ok)
        /\ IF ok
           THEN /\ pc' = "hello"
                /\ UNCHANGED <<tryErr, connOpen>>
           ELSE /\ tryErr' = "SMTP client creation failed: " \o SMTPErrText
                /\ connOpen' = connOpen - 1
                /\ pc' = "tried"
    /\ UNCHANGED <<SenderEmail, recipientEmail, mx, mailServers, localName, hostIdx,
                   lastErr, ips, ipIdx, portIdx, smtpServer, useTLS, tryResult,
                   rcptErr, starttlsExt, sent, tls, address, netOps, result>>
    /\ UNCHANGED <<mode, self, parked>>

\* Hello going on to STARTTLS whenever the server offers it
HelloUpgradesUnasked ==
    /\ pc = "hello"
    /\ sent' = Append(sent, "EHLO " \o localName)
    /\ netOps' = netOps \cup {"Command"}
    /\ \E ok \in BOOLEAN, ext \in BOOLEAN :
        /\ Asks("EHLO " \o localName, <<ok, ext>>)
        /\ IF ok
           THEN /\ starttlsExt' = ext
                /\ pc' = IF smtpServer.Port # "465" /\ ext THEN "starttls" ELSE "mail"
                /\ UNCHANGED <<tryErr, connOpen>>
           ELSE /\ ~ext
                /\ tryErr' = "HELO failed: " \o SMTPErrText
                /\ connOpen' = connOpen - 1
                /\ pc' = "tried"
                /\ UNCHANGED starttlsExt
    /\ UNCHANGED <<tls, SenderEmail, recipientEmail, mx, mailServers, localName, hostIdx,
                   lastErr, ips, ipIdx, portIdx, smtpServer, useTLS, tryResult,
                   rcptErr, address, result>>
    /\ UNCHANGED <<mode, self, parked>>

\* client.Hello(localName) and the STARTTLS condition (validator.go:122-128)
Hello ==
    /\ pc = "hello"
    /\ sent' = Append(sent, "EHLO " \o localName)
    /\ netOps' = netOps \cup {"Command"}
    /\ \E ok \in BOOLEAN, ext \in BOOLEAN :
        /\ Asks("EHLO " \o localName, <<ok, ext>>)
        /\ IF ok
           THEN /\ starttlsExt' = ext
                /\ pc' = IF smtpServer.Port # "465" /\ useTLS /\ ext THEN "starttls" ELSE "mail"
                /\ UNCHANGED <<tryErr, connOpen>>
           ELSE /\ ~ext
                /\ tryErr' = "HELO failed: " \o SMTPErrText
                /\ connOpen' = connOpen - 1
                /\ pc' = "tried"
                /\ UNCHANGED starttlsExt
    /\ UNCHANGED <<tls, SenderEmail, recipientEmail, mx, mailServers, localName, hostIdx,
                   lastErr, ips, ipIdx, portIdx, smtpServer, useTLS, tryResult,
                   rcptErr, address, result>>
    /\ UNCHANGED <<mode, self, parked>>

\* StartTLS ending the attempt when the upgrade fails
StartTLSFatal ==
    /\ pc = "starttls"
    /\ sent' = Append(sent, "STARTTLS")
    /\ tls' \in BOOLEAN
    /\ Asks("STARTTLS", tls')
    /\ IF tls'
       THEN /\ pc' = "mail"
            /\ UNCHANGED <<tryErr, connOpen>>
       ELSE /\ tryErr' = "STARTTLS failed: " \o SMTPErrText
            /\ connOpen' = connOpen - 1
            /\ pc' = "tried"
    /\ UNCHANGED <<SenderEmail, recipientEmail, mx, mailServers, localName, hostIdx,
                   lastErr, ips, ipIdx, portIdx, smtpServer, useTLS, tryResult,
                   rcptErr, starttlsExt, address, netOps, result>>
    /\ UNCHANGED <<mode, self, parked>>

\* client.StartTLS(config); its error is printed and dropped
\* (validator.go:129-137)
StartTLS ==
    /\ pc = "starttls"
    /\ sent' = Append(sent, "STARTTLS")
    /\ tls' \in BOOLEAN
    /\ Asks("STARTTLS", tls')
    /\ pc' = "mail"
    /\ UNCHANGED <<SenderEmail, recipientEmail, mx, mailServers, localName, hostIdx,
                   lastErr, ips, ipIdx, portIdx, smtpServer, useTLS, tryResult, tryErr,
                   rcptErr, starttlsExt, address, connOpen, netOps, result>>
    /\ UNCHANGED <<mode, self, parked>>

\* Mail ending the session with QUIT when MAIL FROM is refused
MailQuitsOnFailure ==
    /\ pc = "mail"
    /\ \E ok \in BOOLEAN :
        /\ Asks("MAIL FROM:<" \o SenderEmail \o ">", ok)
        /\ IF ok
           THEN /\ sent' = Append(sent, "MAIL FROM:<" \o SenderEmail \o ">")
                /\ pc' = "rcpt"
                /\ UNCHANGED <<tryErr, connOpen>>
           ELSE /\ sent' = Append(Append(sent, "MAIL FROM:<" \o SenderEmail \o ">"), "QUIT")
                /\ tryErr' = "MAIL FROM failed: " \o SMTPErrText
                /\ connOpen' = connOpen - 1
                /\ pc' = "tried"
    /\ UNCHANGED <<tls, SenderEmail, recipientEmail, mx, mailServers, localName, hostIdx,
                   lastErr, ips, ipIdx, portIdx, smtpServer, useTLS, tryResult,
                   rcptErr, starttlsExt, address, netOps, result>>
    /\ UNCHANGED <<mode, self, parked>>

\* Mail storing the recipient in the Client's SenderEmail once it is sent
MailOverwritesSender ==
    /\ pc = "mail"
    /\ SenderEmail' = recipientEmail
    /\ sent' = Append(sent, "MAIL FROM:<" \o SenderEmail \o ">")
    /\ \E ok \in BOOLEAN :
        /\ Asks("MAIL FROM:<" \o SenderEmail \o ">", ok)
        /\ IF ok
           THEN /\ pc' = "rcpt"
                /\ UNCHANGED <<tryErr, connOpen>>
           ELSE /\ tryErr' = "MAIL FROM failed: " \o SMTPErrText
                /\ connOpen' = connOpen - 1
                /\ pc' = "tried"
    /\ UNCHANGED <<tls, recipientEmail, mx, mailServers, localName, hostIdx,
                   lastErr, ips, ipIdx, portIdx, smtpServer, useTLS, tryResult,
                   rcptErr, starttlsExt, address, netOps, result>>
    /\ UNCHANGED <<mode, self, parked>>

\* client.Mail(c.SenderEmail) (validator.go:141-143)
Mail ==
    /\ pc = "mail"
    /\ sent' = Append(sent, "MAIL FROM:<" \o SenderEmail \o ">")
    /\ \E ok \in BOOLEAN :
        /\ Asks("MAIL FROM:<" \o SenderEmail \o ">", ok)
        /\ IF ok
           THEN /\ pc' = "rcpt"
                /\ UNCHANGED <<tryErr, connOpen>>
           ELSE /\ tryErr' = "MAIL FROM failed: " \o SMTPErrText
                /\ connOpen' = connOpen - 1
                /\ pc' = "tried"
    /\ UNCHANGED <<tls, SenderEmail, recipientEmail, mx, mailServers, localName, hostIdx,
                   lastErr, ips, ipIdx, portIdx, smtpServer, useTLS, tryResult,
                   rcptErr, starttlsExt, address, netOps, result>>
    /\ UNCHANGED <<mode, self, parked>>

\* Rcpt asking about the local part only
RcptForLocalPart ==
    /\ pc = "rcpt"
    /\ sent' = Append(sent, "RCPT TO:<" \o Split(recipientEmail, "@")[1] \o ">")
    /\ rcptErr' \in {NilErr} \cup RcptErrs
    /\ Asks("RCPT TO:<" \o recipientEmail \o ">", rcptErr')
    /\ pc' = "quit"
    /\ UNCHANGED <<tls, SenderEmail, recipientEmail, mx, mailServers, localName, hostIdx,
                   lastErr, ips, ipIdx, portIdx, smtpServer, useTLS, tryResult, tryErr,
                   starttlsExt, address, connOpen, netOps, result>>
    /\ UNCHANGED <<mode, self, parked>>

\* err = client.Rcpt(recipientEmail) (validator.go:146)
Rcpt ==
    /\ pc = "rcpt"
    /\ sent' = Append(sent, "RCPT TO:<" \o recipientEmail \o ">")
    /\ rcptErr' \in {NilErr} \cup RcptErrs
    /\ Asks("RCPT TO:<" \o recipientEmail \o ">", rcptErr')
    /\ pc' = "quit"
    /\ UNCHANGED <<tls, SenderEmail, recipientEmail, mx, mailServers, localName, hostIdx,
                   lastErr, ips, ipIdx, portIdx, smtpServer, useTLS, tryResult, tryErr,
                   starttlsExt, address, connOpen, netOps, result>>
    /\ UNCHANGED <<mode, self, parked>>

\* client.Quit(), the classification of err and the return of
\* TryConnectingSMTP with its deferred closes (validator.go:147-171)
Quit ==
    /\ pc = "quit"
    /\ sent' = Append(sent, "QUIT")
    /\ connOpen' = connOpen - 1
    /\ tryResult' = Classify(tryResult, rcptErr).result
    /\ tryErr' = Classify(tryResult, rcptErr).err
    /\ pc' = "tried"
    /\ UNCHANGED <<tls, SenderEmail, recipientEmail, mx, mailServers, localName, hostIdx,
                   lastErr, ips, ipIdx, portIdx, smtpServer, useTLS,
                   rcptErr, starttlsExt, address, netOps, result>>
    /\ UNCHANGED <<mode, self, parked, tape>>

\* ReturnVerdict handing the attempt's verdict on without the endpoint
ReturnVerdictBare ==
    /\ pc = "tried"
    /\ tryErr = NilErr
    /\ result' = tryResult
    /\ pc' = "done"
    /\ UNCHANGED <<SenderEmail, recipientEmail, mx, mailServers, localName, hostIdx,
                   lastErr, ips, ipIdx, portIdx, smtpServer, useTLS, tryResult, tryErr,
                   rcptErr, starttlsExt, sent, tls, address, connOpen, netOps>>
    /\ UNCHANGED <<mode, self, parked, tape>>

\* the attempt gave a verdict: attach the endpoint and return it
\* (validator.go:250-253, 259-262)
ReturnVerdict ==
    /\ pc = "tried"
    /\ tryErr = NilErr
    /\ result' = [tryResult EXCEPT !.SMTPDetails = smtpServer]
    /\ pc' = "done"
    /\ UNCHANGED <<SenderEmail, recipientEmail, mx, mailServers, localName, hostIdx,
                   lastErr, ips, ipIdx, portIdx, smtpServer, useTLS, tryResult, tryErr,
                   rcptErr, starttlsExt, sent, tls, address, connOpen, netOps>>
    /\ UNCHANGED <<mode, self, parked, tape>>

\* RetryWithTLS retrying also after a verdict that is not IsValid
RetryWithTLSUnlessValid ==
    /\ pc = "tried"
    /\ tryErr # NilErr \/ ~tryResult.IsValid
    /\ ~useTLS
    /\ useTLS' = TRUE
    /\ pc' = "dial"
    /\ UNCHANGED <<SenderEmail, recipientEmail, mx, mailServers, localName, hostIdx,
                   lastErr, ips, ipIdx, portIdx, smtpServer, tryResult, tryErr,
                   rcptErr, starttlsExt, sent, tls, address, connOpen, netOps, result>>
    /\ UNCHANGED <<mode, self, parked, tape>>

\* RetryWithTLS retrying a host with TLS however often it was tried
RetryWithTLSAgain ==
    /\ pc = "tried"
    /\ tryErr # NilErr
    /\ useTLS' = TRUE
    /\ pc' = "dial"
    /\ UNCHANGED <<SenderEmail, recipientEmail, mx, mailServers, localName, hostIdx,
                   lastErr, ips, ipIdx, portIdx, smtpServer, tryResult, tryErr,
                   rcptErr, starttlsExt, sent, tls, address, connOpen, netOps, result>>
    /\ UNCHANGED <<mode, self, parked, tape>>

\* the attempt with useTLS = false failed: try again with useTLS = true
\* (validator.go:249-258)
RetryWithTLS ==
    /\ pc = "tried"
    /\ tryErr # NilErr
    /\ ~useTLS
    /\ useTLS' = TRUE
    /\ pc' = "dial"
    /\ UNCHANGED <<SenderEmail, recipientEmail, mx, mailServers, localName, hostIdx,
                   lastErr, ips, ipIdx, portIdx, smtpServer, tryResult, tryErr,
                   rcptErr, starttlsExt, sent, tls, address, connOpen, netOps, result>>
    /\ UNCHANGED <<mode, self, parked, tape>>

\* NextServer keeping the first recorded error instead of the last one
NextServerKeepsFirstErr ==
    /\ pc = "tried"
    /\ tryErr # NilErr
    /\ useTLS
    /\ lastErr' = IF lastErr = NilErr THEN tryErr ELSE lastErr
    /\ hostIdx' = hostIdx + 1
    /\ smtpServer' = NilPtr
    /\ useTLS' = FALSE
    /\ tryResult' = NilPtr
    /\ tryErr' = NilErr
    /\ rcptErr' = NilErr
    /\ starttlsExt' = FALSE
    /\ sent' = <<>>
    /\ tls' = FALSE
    /\ address' = ""
    /\ pc' = "loop"
    /\ UNCHANGED <<SenderEmail, recipientEmail, mx, mailServers, localName,
                   ips, ipIdx, portIdx, connOpen, netOps, result>>
    /\ UNCHANGED <<mode, self, parked, tape>>

\* both attempts failed: record the error, next mail server; the variables
\* of the loop body go out of scope (validator.go:258-267)
NextServer ==
    /\ pc = "tried"
    /\ tryErr # NilErr
    /\ useTLS
    /\ lastErr' = tryErr
    /\ hostIdx' = hostIdx + 1
    /\ smtpServer' = NilPtr
    /\ useTLS' = FALSE
    /\ tryResult' = NilPtr
    /\ tryErr' = NilErr
    /\ rcptErr' = NilErr
    /\ starttlsExt' = FALSE
    /\ sent' = <<>>
    /\ tls' = FALSE
    /\ address' = ""
    /\ pc' = "loop"
    /\ UNCHANGED <<SenderEmail, recipientEmail, mx, mailServers, localName,
                   ips, ipIdx, portIdx, connOpen, netOps, result>>
    /\ UNCHANGED <<mode, self, parked, tape>>

\* every mail server failed (validator.go:269-273)
Exhausted ==
    /\ pc = "loop"
    /\ hostIdx > Len(mailServers)
    /\ lastErr # NilErr
    /\ result' = Verdict(FALSE, FALSE, TRUE, lastErr, NilPtr)
    /\ pc' = "done"
    /\ UNCHANGED <<SenderEmail, recipientEmail, mx, mailServers, localName, hostIdx,
                   lastErr, ips, ipIdx, portIdx, smtpServer, useTLS, tryResult, tryErr,
                   rcptErr, starttlsExt, sent, tls, address, connOpen, netOps>>
    /\ UNCHANGED <<mode, self, parked, tape>>

\* the loop ended with lastErr still nil: lastErr.Error() dereferences a nil
\* interface and the call panics (validator.go:237, 269-272)
NilErrorPanic ==
    /\ pc = "loop"
    /\ hostIdx > Len(mailServers)
    /\ lastErr = NilErr
    /\ pc' = "panic"
    /\ UNCHANGED <<SenderEmail, recipientEmail, mx, mailServers, localName, hostIdx,
                   lastErr, ips, ipIdx, portIdx, smtpServer, useTLS, tryResult, tryErr,
                   rcptErr, starttlsExt, sent, tls, address, connOpen, netOps, result>>
    /\ UNCHANGED <<mode, self, parked, tape>>

Next ==
    \/ FormatReject
    \/ FormatAccept
    \/ LookupMX
    \/ LocalName
    \/ LookupIPFail
    \/ LookupIPOk
    \/ ProbeRefused
    \/ ProbeAccepted
    \/ Located
    \/ Unreachable
    \/ Dial
    \/ NewClient
    \/ Hello
    \/ StartTLS
    \/ Mail
    \/ Rcpt
    \/ Quit
    \/ ReturnVerdict
    \/ RetryWithTLS
    \/ NextServer
    \/ Exhausted
    \/ NilErrorPanic

Spec == Init /\ [][Next]_vars

-----------------------------------------------------------------------------
(* Two calls *)

\* what belongs to one call: the Client it was called on (client.go:5-7), its
\* argument and its local variables (validator.go:195-274)
Context ==
    [SenderEmail |-> SenderEmail,
     recipientEmail |-> recipientEmail,
     pc |-> pc,
     mx |-> mx,
     mailServers |-> mailServers,
     localName |-> localName,
     hostIdx |-> hostIdx,
     lastErr |-> lastErr,
     ips |-> ips,
     ipIdx |-> ipIdx,
     portIdx |-> portIdx,
     smtpServer |-> smtpServer,
     useTLS |-> useTLS,
     tryResult |-> tryResult,
     tryErr |-> tryErr,
     rcptErr |-> rcptErr,
     starttlsExt |-> starttlsExt,
     sent |-> sent,
     tls |-> tls,
     address |-> address,
     connOpen |-> connOpen,
     netOps |-> netOps,
     result |-> result]

\* a call that has just been entered on a client with this SenderEmail
Entered(sender, email) ==
    [SenderEmail |-> sender,
     recipientEmail |-> email,
     pc |-> "start",
     mx |-> [records |-> <<>>, err |-> NilErr],
     mailServers |-> <<>>,
     localName |-> "",
     hostIdx |-> 0,
     lastErr |-> NilErr,
     ips |-> <<>>,
     ipIdx |-> 0,
     portIdx |-> 0,
     smtpServer |-> NilPtr,
     useTLS |-> FALSE,
     tryResult |-> NilPtr,
     tryErr |-> NilErr,
     rcptErr |-> NilErr,
     starttlsExt |-> FALSE,
     sent |-> <<>>,
     tls |-> FALSE,
     address |-> "",
     connOpen |-> 0,
     netOps |-> {},
     result |-> NilPtr]

\* the variables of the running call become those of ctx
Resume(ctx) ==
    /\ SenderEmail' = ctx.SenderEmail
    /\ recipientEmail' = ctx.recipientEmail
    /\ pc' = ctx.pc
    /\ mx' = ctx.mx
    /\ mailServers' = ctx.mailServers
    /\ localName' = ctx.localName
    /\ hostIdx' = ctx.hostIdx
    /\ lastErr' = ctx.lastErr
    /\ ips' = ctx.ips
    /\ ipIdx' = ctx.ipIdx
    /\ portIdx' = ctx.portIdx
    /\ smtpServer' = ctx.smtpServer
    /\ useTLS' = ctx.useTLS
    /\ tryResult' = ctx.tryResult
    /\ tryErr' = ctx.tryErr
    /\ rcptErr' = ctx.rcptErr
    /\ starttlsExt' = ctx.starttlsExt
    /\ sent' = ctx.sent
    /\ tls' = ctx.tls
    /\ address' = ctx.address
    /\ connOpen' = ctx.connOpen
    /\ netOps' = ctx.netOps
    /\ result' = ctx.result

\* the sender address of the second client (NewClient, client.go:18-22)
OtherSender == "you@t.org"

\* the addresses validated when two calls are followed
TwoCallEmails == {"u@d.com", "ud.com"}

\* the answers of the environment when two calls are followed
Narrow ==
    /\ mx'.records \in {<<>>, <<"mx2.d.com">>}
    /\ localName' \in {"", "verifier.local", "box.local"}
    /\ ips' \in {<<>>, <<"10.0.0.1">>}
    /\ pc' = "located" => portIdx' = 2
    /\ rcptErr' \in {NilErr, "452 4.2.2 Mailbox full", "550 5.1.1 User unknown"}

\* the steps of the running call against those answers
NarrowNext ==
    \/ FormatReject /\ Narrow
    \/ FormatAccept /\ Narrow
    \/ LookupMX /\ Narrow
    \/ LocalName /\ Narrow
    \/ LookupIPFail /\ Narrow
    \/ LookupIPOk /\ Narrow
    \/ ProbeRefused /\ Narrow
    \/ ProbeAccepted /\ Narrow
    \/ Located /\ Narrow
    \/ Unreachable /\ Narrow
    \/ Dial /\ Narrow
    \/ NewClient /\ Narrow
    \/ Hello /\ Narrow
    \/ StartTLS /\ Narrow
    \/ Mail /\ Narrow
    \/ Rcpt /\ Narrow
    \/ Quit /\ Narrow
    \/ ReturnVerdict /\ Narrow
    \/ RetryWithTLS /\ Narrow
    \/ NextServer /\ Narrow
    \/ Exhausted /\ Narrow
    \/ NilErrorPanic /\ Narrow

\* Switch with the sender address kept in one variable of the package that
\* both calls read, instead of in each call's Client
SwitchSharedSender ==
    /\ mode = "interleaved"
    /\ Resume([parked EXCEPT !.SenderEmail = SenderEmail])
    /\ parked' = Context
    /\ self' = 3 - self
    /\ UNCHANGED <<mode, tape>>

\* the scheduler stops the running call and resumes the other one; each call
\* runs on its own Client and its own locals (client.go:5-22,
\* validator.go:195-274)
Switch ==
    /\ mode = "interleaved"
    /\ Resume(parked)
    /\ parked' = Context
    /\ self' = 3 - self
    /\ UNCHANGED <<mode, tape>>

\* the first call has returned and ValidateEmail is called again on the same
\* Client with the same address: the Client is what it was left as, the
\* locals are new (validator.go:195-274, client.go:5-7)
CallAgain ==
    /\ mode = "record"
    /\ pc = "done"
    /\ parked' = Context
    /\ Resume(Entered(SenderEmail, recipientEmail))
    /\ self' = 2
    /\ mode' = "replay"
    /\ UNCHANGED tape

\* two calls on two clients with different sender addresses
InitTwo ==
    /\ SenderEmail \in Senders
    /\ recipientEmail \in TwoCallEmails
    /\ Fresh
    /\ mode = "interleaved"
    /\ self = 1
    /\ parked \in {Entered(OtherSender, email) : email \in TwoCallEmails}
    /\ tape = <<>>

NextTwo ==
    \/ NarrowNext
    \/ Switch

SpecTwo == InitTwo /\ [][NextTwo]_vars

\* one client called twice with the same address
InitAgain ==
    /\ SenderEmail \in Senders
    /\ recipientEmail \in TwoCallEmails
    /\ Fresh
    /\ mode = "record"
    /\ self = 1
    /\ parked = NilPtr
    /\ tape = <<>>

NextAgain ==
    \/ NarrowNext
    \/ CallAgain

SpecAgain == InitAgain /\ [][NextAgain]_vars

-----------------------------------------------------------------------------
(* Vocabulary of the properties *)

\* number of '@' characters of s
CountAt(s) == Cardinality({i \in 1..Len(s) : SubSeq(s, i, i) = "@"})

\* the text before and after the single '@' of an address that has just one
LocalPart(s) == SubSeq(s, 1, Index(s, "@") - 1)
DomainPart(s) == SubSeq(s, Index(s, "@") + 1, Len(s))

\* ValidateEmail has returned / the current TryConnectingSMTP call has returned
Returned == pc = "done"
TryReturned == pc = "tried"

\* the current TryConnectingSMTP call has returned after its recipient step
RcptAnswered == pc = "tried" /\ Len(sent) > 0 /\ sent[Len(sent)] = "QUIT"

\* the reply code of err is code: textproto.Error prints the code first
ReplyCode(err, code) == SubSeq(err, 1, Len(code)) = code

\* err carries text hinting at a missing reverse DNS entry
ReverseDNSHint(err) == Contains(err, "reverse hostname")

\* endpoint location and SMTP handshake among the network operations
EndpointOps == {"LookupIP", "Probe", "Connect", "Command"}

-----------------------------------------------------------------------------
(* Properties *)

\* C1: an address with zero or with two or more '@' gets the invalid-format
\* verdict (IsValid and HasMX false) and the call performs no network
\* operation and opens no connection at any point.
C1_NotOneAtRejectedOffline ==
    CountAt(recipientEmail) # 1 =>
        /\ netOps = {}
        /\ connOpen = 0
        /\ pc \in {"start", "done"}
        /\ Returned => result = InvalidFormat

C1_Witness ==
    /\ Returned
    /\ CountAt(recipientEmail) >= 2
    /\ result = InvalidFormat

\* C2 (as claimed): an address with one '@' and an empty local part or an
\* empty domain gets the invalid-format verdict without the MX query or any
\* other network operation.
C2_EmptyPartRejectedOffline ==
    (CountAt(recipientEmail) = 1
        /\ (LocalPart(recipientEmail) = "" \/ DomainPart(recipientEmail) = "")) =>
        /\ netOps = {}
        /\ Returned => result = InvalidFormat

\* C3 (as claimed): once the MX query has failed or has returned zero
\* records, the call has returned a verdict with HasMX and IsValid false, and
\* no endpoint location or SMTP handshake happens.
C3_NoMXIsTerminal ==
    ("LookupMX" \in netOps /\ (mx.err # NilErr \/ Len(mx.records) = 0)) =>
        /\ Returned
        /\ ~result.HasMX
        /\ ~result.IsValid
        /\ netOps \cap EndpointOps = {}

\* C4 (as claimed): the call never crashes, and every verdict with IsValid
\* false carries a non-empty ErrorMessage.
C4_VerdictNeverCrash ==
    /\ pc # "panic"
    /\ Returned => (~result.IsValid => result.ErrorMessage # "")

\* C5: in every verdict returned by ValidateEmail and every result returned
\* by TryConnectingSMTP, IsCatchAll implies IsValid.
C5_CatchAllImpliesValid ==
    /\ Returned => (result.IsCatchAll => result.IsValid)
    /\ TryReturned => (tryResult.IsCatchAll => tryResult.IsValid)

C5_Witness ==
    /\ Returned
    /\ result.IsCatchAll
    /\ result.IsValid

\* C6: in every verdict returned by ValidateEmail, HasMX false implies
\* IsValid false, and every result returned by TryConnectingSMTP, verdict or
\* failed attempt, has HasMX true.
C6_NoMXImpliesInvalid ==
    /\ Returned => (~result.HasMX => ~result.IsValid)
    /\ TryReturned => tryResult.HasMX

C6_Witness ==
    /\ Returned
    /\ result.IsValid
    /\ result.HasMX
    /\ result.SMTPDetails # NilPtr

\* C7 (as claimed): a recipient-step error with reply code 550, whatever the
\* rest of its text, gives a verdict (no error) with IsValid and IsCatchAll
\* false and the message that the user does not exist.
C7_Any550IsRejection ==
    (RcptAnswered /\ rcptErr # NilErr /\ ReplyCode(rcptErr, "550")) =>
        /\ tryErr = NilErr
        /\ ~tryResult.IsValid
        /\ ~tryResult.IsCatchAll
        /\ tryResult.ErrorMessage = "User doesn't exist"

\* C8: when greeting, MAIL FROM and RCPT TO all succeed, the handshake
\* returns no error and a verdict with IsValid true, IsCatchAll false, HasMX
\* true and an empty ErrorMessage.
C8_AcceptedIsValid ==
    (RcptAnswered /\ rcptErr = NilErr) =>
        /\ tryErr = NilErr
        /\ tryResult = Verdict(TRUE, FALSE, TRUE, "", NilPtr)

C8_Witness ==
    /\ RcptAnswered
    /\ rcptErr = NilErr
    /\ tryResult.IsValid

\* C9 (as claimed): a recipient-step error whose text embeds 250 gives a
\* verdict (no error) with IsValid and IsCatchAll true.
C9_Any250IsCatchAll ==
    (RcptAnswered /\ rcptErr # NilErr /\ Contains(rcptErr, "250")) =>
        /\ tryErr = NilErr
        /\ tryResult.IsValid
        /\ tryResult.IsCatchAll

\* C9 (amended): a recipient-step error whose text embeds 250 and contains
\* neither "450 4.7.1" nor "550 5.1.1" gives a verdict (no error) with
\* IsValid and IsCatchAll true.
C9_Unmatched250IsCatchAll ==
    (RcptAnswered /\ rcptErr # NilErr /\ Contains(rcptErr, "250")
        /\ ~Contains(rcptErr, "450 4.7.1") /\ ~Contains(rcptErr, "550 5.1.1")) =>
        /\ tryErr = NilErr
        /\ tryResult.IsValid
        /\ tryResult.IsCatchAll

C9_Witness ==
    /\ RcptAnswered
    /\ rcptErr = "451 4.3.0 queue id 250 deferred"
    /\ tryErr = NilErr
    /\ tryResult.IsCatchAll

\* C10 (as claimed): a recipient-step error with reply code 450 and
\* reverse-DNS hint text gives a verdict (no error) with IsValid true,
\* IsCatchAll false and a non-empty message.
C10_Any450ReverseDNSIsValid ==
    (RcptAnswered /\ rcptErr # NilErr /\ ReplyCode(rcptErr, "450")
        /\ ReverseDNSHint(rcptErr)) =>
        /\ tryErr = NilErr
        /\ tryResult.IsValid
        /\ ~tryResult.IsCatchAll
        /\ tryResult.ErrorMessage # ""

\* C10 (amended): a recipient-step error whose text contains "450 4.7.1"
\* gives a verdict (no error) with IsValid true, IsCatchAll false and a
\* non-empty message.
C10_450_471IsValid ==
    (RcptAnswered /\ rcptErr # NilErr /\ Contains(rcptErr, "450 4.7.1")) =>
        /\ tryErr = NilErr
        /\ tryResult.IsValid
        /\ ~tryResult.IsCatchAll
        /\ tryResult.ErrorMessage # ""

C10_Witness ==
    /\ RcptAnswered
    /\ ReplyCode(rcptErr, "450")
    /\ ReverseDNSHint(rcptErr)
    /\ Contains(rcptErr, "450 4.7.1")
    /\ tryResult.IsValid
    /\ tryResult.ErrorMessage = "Reverse DNS lookup required but email might be valid"

\* the locator (GetSMTPServer) is running for the current mail server
Locating == pc = "probe" \/ (pc = "loop" /\ hostIdx <= Len(mailServers))

\* the current TryConnectingSMTP call has returned a verdict (a nil error)
VerdictYielded == pc = "tried" /\ tryErr = NilErr

\* the messages a classified verdict can carry (validator.go:152, 157)
VerdictMessages ==
    {"", "Reverse DNS lookup required but email might be valid", "User doesn't exist"}

\* C11: the mail servers are visited one by one in the order of the list and
\* one is left only without a verdict; a failure of the locator never ends
\* the call; an attempt with useTLS = true only follows the failed attempt
\* with useTLS = false; the verdict returned with an endpoint is the one the
\* current attempt on the current mail server yielded, and it carries a
\* verdict message, not the recorded error of a skipped server.
C11_FirstVerdictInOrder ==
    /\ [][/\ Locating => ~Returned'
          /\ (hostIdx > 0 /\ hostIdx' # hostIdx) =>
                (hostIdx' = hostIdx + 1 /\ ~VerdictYielded)
          /\ (pc # "dial" /\ pc' = "dial" /\ useTLS') => (TryReturned /\ ~useTLS)
          /\ (TryReturned /\ Returned') =>
                /\ VerdictYielded
                /\ result' = [tryResult EXCEPT !.SMTPDetails = smtpServer]]_vars
    /\ [](Returned /\ result.SMTPDetails # NilPtr =>
            /\ hostIdx \in 1..Len(mailServers)
            /\ result.SMTPDetails.Server = mailServers[hostIdx]
            /\ result.ErrorMessage \in VerdictMessages
            /\ result.ErrorMessage # lastErr)

C11_Witness ==
    /\ Returned
    /\ hostIdx = 2
    /\ lastErr = "no available SMTP servers found for " \o mailServers[1]
    /\ useTLS
    /\ result.IsValid
    /\ result.SMTPDetails.Server = mailServers[2]

\* C12: when an attempt yields a verdict, valid or not, the next step of the
\* call is the return of that verdict, with no network operation, connection
\* or command in it, and nothing happens after the return.
C12_VerdictReturnedAtOnce ==
    [][/\ VerdictYielded =>
            /\ Returned'
            /\ result'.IsValid = tryResult.IsValid
            /\ result'.IsCatchAll = tryResult.IsCatchAll
            /\ result'.ErrorMessage = tryResult.ErrorMessage
            /\ netOps' = netOps
            /\ connOpen' = connOpen
            /\ sent' = sent
            /\ hostIdx' = hostIdx
       /\ ~Returned]_vars

C12_Witness ==
    /\ Returned
    /\ hostIdx = 1
    /\ Len(mailServers) = 2
    /\ ~useTLS
    /\ ~result.IsValid
    /\ result.ErrorMessage = "User doesn't exist"

\* the errors GetSMTPServer can return for a mail server (servers.go:75, 111)
LocatorErrors(host) ==
    {"failed to lookup IP for " \o host \o ": " \o ans.err :
        ans \in {a \in IPAnswers : a.err # NilErr}}
    \cup {"no available SMTP servers found for " \o host}

\* every mail server of a non-empty list has been tried without a verdict
AllServersFailed ==
    Returned /\ Len(mailServers) > 0 /\ hostIdx > Len(mailServers)

\* C13: the recorded error changes only when the loop leaves a mail server,
\* and it then becomes the locator's error for that server when no endpoint
\* was found and otherwise the error of the attempt with useTLS = true; when
\* every server of a non-empty list has failed, the verdict is IsValid =
\* false, HasMX = true, no endpoint and that recorded error as the message.
C13_ExhaustedReportsLastError ==
    /\ [][/\ lastErr' # lastErr => (hostIdx >= 1 /\ hostIdx' = hostIdx + 1)
          /\ (hostIdx >= 1 /\ hostIdx' = hostIdx + 1) =>
                IF Locating
                THEN lastErr' \in LocatorErrors(mailServer)
                ELSE TryReturned /\ useTLS /\ tryErr # NilErr /\ lastErr' = tryErr]_vars
    /\ [](AllServersFailed =>
            /\ lastErr # NilErr
            /\ result = Verdict(FALSE, FALSE, TRUE, lastErr, NilPtr))

C13_Witness ==
    /\ AllServersFailed
    /\ Len(mailServers) = 2
    /\ result.ErrorMessage = "452 4.2.2 Mailbox full"
    /\ "LookupIP" \in netOps

\* the names GetHostname returns when it could not derive the name of the
\* machine from a reverse lookup (validator.go:24, 30, 44)
LocalNameFallbacks ==
    {"verifier.local"}
    \cup {h.host : h \in {x \in HostnameAnswers : x.err = NilErr}}
    \cup {h.host \o ".local" : h \in {x \in HostnameAnswers : x.err = NilErr}}

\* C14: once GetHostname has handed back one of its fallback names, the call
\* has entered the loop over the mail servers.
C14_HostnameFailureNotFatal ==
    localName \in LocalNameFallbacks => hostIdx >= 1

\* C17 (as claimed): a recipient-step error with reply code 550 whose text
\* also contains "250" is decided by the 550 rule, ahead of the embedded-250
\* rule: a verdict with IsValid and IsCatchAll false, never a catch-all.
C17_550Before250 ==
    (RcptAnswered /\ rcptErr # NilErr /\ ReplyCode(rcptErr, "550")
        /\ Contains(rcptErr, "250")) =>
        /\ tryErr = NilErr
        /\ ~tryResult.IsValid
        /\ ~tryResult.IsCatchAll

\* err matches none of the three tests of the classifier
\* (validator.go:150, 155, 160)
Unmatched(err) ==
    /\ err # NilErr
    /\ ~Contains(err, "450 4.7.1")
    /\ ~Contains(err, "550 5.1.1")
    /\ ~Contains(err, "250")

\* the recipient-step errors of the environment that match none of them
UnmatchedRcptErrs == {e \in RcptErrs : Unmatched(e)}

\* C18 (as claimed): a recipient-step error that has neither reply code 450
\* with reverse-DNS hint text, nor reply code 550, nor "250" in its text is
\* returned by the handshake as it is, with the verdict left as initialised.
C18_NoRuleMeansPropagated ==
    (RcptAnswered /\ rcptErr # NilErr
        /\ ~(ReplyCode(rcptErr, "450") /\ ReverseDNSHint(rcptErr))
        /\ ~ReplyCode(rcptErr, "550")
        /\ ~Contains(rcptErr, "250")) =>
        /\ tryErr = rcptErr
        /\ tryResult = NewResult

\* C18 (amended): a recipient-step error whose text contains none of
\* "450 4.7.1", "550 5.1.1" and "250" is returned by the handshake as it is,
\* with the verdict left as initialised; the next step is then the attempt
\* with useTLS = true on the same endpoint, or after that attempt the next
\* mail server with the error recorded; and a returned verdict carries such
\* an error only as the recorded error after every mail server has failed.
C18_UnmatchedPropagated ==
    /\ [](RcptAnswered /\ Unmatched(rcptErr) =>
            /\ tryErr = rcptErr
            /\ tryResult = NewResult)
    /\ [][RcptAnswered /\ Unmatched(rcptErr) =>
            IF ~useTLS
            THEN /\ pc' = "dial"
                 /\ useTLS'
                 /\ smtpServer' = smtpServer
                 /\ hostIdx' = hostIdx
                 /\ lastErr' = lastErr
            ELSE /\ pc' = "loop"
                 /\ hostIdx' = hostIdx + 1
                 /\ lastErr' = rcptErr]_vars
    /\ [](Returned /\ result # NilPtr /\ result.ErrorMessage \in UnmatchedRcptErrs =>
            /\ hostIdx > Len(mailServers)
            /\ result = Verdict(FALSE, FALSE, TRUE, lastErr, NilPtr))

C18_Witness ==
    /\ RcptAnswered
    /\ useTLS
    /\ hostIdx = 2
    /\ rcptErr = "452 4.2.2 Mailbox full"
    /\ tryErr = rcptErr
    /\ lastErr = "452 4.2.2 Mailbox full"

\* C19: the step after GetSMTPServer has returned an endpoint is the attempt
\* with useTLS = false; an attempt with useTLS = true starts only from the
\* failed attempt with useTLS = false on the same mail server, with the same
\* endpoint, without any network operation in between and with no
\* connection open; after the attempt with useTLS = true the call returns or
\* goes on to the next mail server; every attempt starts with no connection
\* open, on the endpoint located for the current mail server.
C19_TLSRetryAfterPlainFailure ==
    /\ [][/\ pc = "located" => (pc' = "dial" /\ ~useTLS')
          /\ (pc \notin {"located", "dial"} /\ pc' = "dial") =>
                /\ TryReturned
                /\ tryErr # NilErr
                /\ ~useTLS
                /\ useTLS'
                /\ hostIdx' = hostIdx
                /\ smtpServer' = smtpServer
                /\ netOps' = netOps
                /\ connOpen = 0
                /\ connOpen' = 0
          /\ (TryReturned /\ useTLS) => pc' \in {"done", "loop"}
          /\ (useTLS /\ ~useTLS') => hostIdx' = hostIdx + 1]_vars
    /\ [](pc = "dial" =>
            /\ connOpen = 0
            /\ smtpServer # NilPtr
            /\ smtpServer.Server = mailServer)
    /\ [](connOpen \in {0, 1})

C19_Witness ==
    /\ pc = "newclient"
    /\ useTLS
    /\ connOpen = 1
    /\ hostIdx = 2
    /\ smtpServer.Server = mailServers[2]
    /\ smtpServer.Port = "25"

\* the verb of an SMTP command line
CommandVerb(cmd) == SubSeq(cmd, 1, 4)

\* the verbs of the commands the current attempt has sent
SentVerbs == [i \in 1..Len(sent) |-> CommandVerb(sent[i])]

IsPrefix(s, t) == Len(s) <= Len(t) /\ s = SubSeq(t, 1, Len(s))

\* C20: the commands of an attempt are a prefix of EHLO, MAIL FROM, RCPT TO,
\* QUIT with or without STARTTLS after EHLO (so RCPT TO is sent at most once,
\* QUIT only after it, and DATA never); an attempt that failed at the
\* greeting has sent the greeting only, one that failed at MAIL FROM has sent
\* nothing after MAIL FROM; an attempt that has connected and not yet
\* greeted has sent nothing.
C20_CommandsArePrefix ==
    /\ \/ IsPrefix(SentVerbs, <<"EHLO", "MAIL", "RCPT", "QUIT">>)
       \/ IsPrefix(SentVerbs, <<"EHLO", "STAR", "MAIL", "RCPT", "QUIT">>)
    /\ \A i \in 1..Len(sent) : SentVerbs[i] # "DATA"
    /\ (TryReturned /\ tryErr = "HELO failed: " \o SMTPErrText) => SentVerbs = <<"EHLO">>
    /\ (TryReturned /\ tryErr = "MAIL FROM failed: " \o SMTPErrText) =>
            (Len(sent) \in {2, 3} /\ SentVerbs[Len(sent)] = "MAIL")
    /\ pc \in {"newclient", "hello"} => sent = <<>>

C20_Witness ==
    /\ RcptAnswered
    /\ SentVerbs = <<"EHLO", "STAR", "MAIL", "RCPT", "QUIT">>
    /\ sent[3] = "MAIL FROM:<me@s.org>"

\* the second call on the same Client has ended
SecondCallEnded == mode = "replay" /\ pc \in {"done", "panic"}

\* C15: when ValidateEmail is called a second time on the same Client with the
\* same address and the environment answers each question as it answered it
\* the first time, the Client is the one the first call was made on, with
\* the SenderEmail it had, and the second call ends as the first one did:
\* it returns, with a verdict equal in every field, the endpoint included,
\* after asking as many questions.
C15_SameAnswersSameVerdict ==
    /\ mode = "replay" => SenderEmail = parked.SenderEmail
    /\ mode # "alone" => SenderEmail \in Senders
    /\ SecondCallEnded =>
        /\ pc = parked.pc
        /\ result = parked.result
        /\ tape = <<>>

C15_Witness ==
    /\ SecondCallEnded
    /\ result.IsValid
    /\ result.SMTPDetails = SMTPDetails("mx2.d.com", "25", "10.0.0.1")
    /\ useTLS
    /\ Len(sent) = 5
    /\ Len(parked.sent) = 5

\* the sender address each client was created with (NewClient)
ClientSender(call) == IF call = 1 THEN "me@s.org" ELSE OtherSender

\* every MAIL FROM among the commands carries this sender address
MailFromIs(commands, sender) ==
    \A i \in 1..Len(commands) :
        CommandVerb(commands[i]) = "MAIL" =>
            commands[i] = "MAIL FROM:<" \o sender \o ">"

\* C16: with two calls on two clients interleaved in any way, each call's
\* MAIL FROM commands carry the SenderEmail its own client was created with,
\* that SenderEmail is never written, a step of one call is a step of
\* ValidateEmail that leaves every variable of the other call, its verdict
\* included, as it is, and a call that is resumed finds its variables as it
\* left them.
C16_CallsDoNotInterfere ==
    /\ [](mode = "interleaved" =>
            /\ SenderEmail = ClientSender(self)
            /\ parked.SenderEmail = ClientSender(3 - self)
            /\ MailFromIs(sent, ClientSender(self))
            /\ MailFromIs(parked.sent, ClientSender(3 - self)))
    /\ [][mode = "interleaved" =>
            /\ self' = self => (parked' = parked /\ SenderEmail' = SenderEmail /\ Next)
            /\ self' # self => (Context' = parked /\ parked' = Context)]_vars

C16_Witness ==
    /\ mode = "interleaved"
    /\ self = 2
    /\ Returned
    /\ result.IsValid
    /\ sent[2] = "MAIL FROM:<you@t.org>"
    /\ parked.pc = "quit"
    /\ parked.rcptErr = "550 5.1.1 User unknown"
    /\ parked.sent[3] = "MAIL FROM:<me@s.org>"

\* the current attempt got past the greeting
Greeted == pc \in {"starttls", "mail", "rcpt", "quit"}
            \/ (TryReturned /\ Len(sent) > 0 /\ tryErr # "HELO failed: " \o SMTPErrText)

\* C21: an attempt that got past the greeting and has returned has sent
\* MAIL FROM, whether STARTTLS was sent or not and whether the upgrade gave a
\* TLS session or not; what it returns is then the MAIL FROM error with the
\* verdict as initialised, or the classification of the RCPT TO answer.
C21_FailedUpgradeNotFatal ==
    /\ pc = "mail" => tryErr = NilErr /\ connOpen = 1
    /\ (TryReturned /\ Greeted) =>
        /\ \E i \in 1..Len(sent) : SentVerbs[i] = "MAIL"
        /\ IF SentVerbs[Len(sent)] = "MAIL"
           THEN /\ tryErr = "MAIL FROM failed: " \o SMTPErrText
                /\ tryResult = NewResult
           ELSE /\ RcptAnswered
                /\ tryResult = Classify(NewResult, rcptErr).result
                /\ tryErr = Classify(NewResult, rcptErr).err

C21_Witness ==
    /\ RcptAnswered
    /\ SentVerbs[2] = "STAR"
    /\ ~tls
    /\ tryErr = NilErr
    /\ tryResult.IsValid
    /\ rcptErr = NilErr

\* C22: once the greeting has succeeded, STARTTLS is or has been sent exactly
\* when the port of the endpoint is not 465, useTLS is true and the server
\* advertised STARTTLS; it is sent once, right after the greeting, and never
\* in an attempt with useTLS = false.
C22_UpgradeIffAskedAndOffered ==
    LET upgrade == pc = "starttls" \/ \E i \in 1..Len(sent) : SentVerbs[i] = "STAR" IN
    /\ Greeted =>
        (upgrade <=> (smtpServer.Port # "465" /\ useTLS /\ starttlsExt))
    /\ pc = "starttls" => SentVerbs = <<"EHLO">>
    /\ pc \in {"newclient", "hello", "starttls", "mail", "rcpt", "quit", "tried"} =>
        /\ \A i \in 1..Len(sent) : SentVerbs[i] = "STAR" => (i = 2 /\ SentVerbs[1] = "EHLO")
        /\ ~useTLS => \A i \in 1..Len(sent) : SentVerbs[i] # "STAR"

C22_Witness ==
    /\ pc = "mail"
    /\ useTLS
    /\ starttlsExt
    /\ smtpServer.Port = "465"
    /\ tls
    /\ SentVerbs = <<"EHLO">>

\* C23: at most one connection is open at any time; one is open only between
\* an accepted probe and the return of GetSMTPServer, and between the dial
\* of an attempt and the return of TryConnectingSMTP; none is open between
\* the operations or once ValidateEmail has returned.
C23_ConnectionsClosed ==
    /\ connOpen \in {0, 1}
    /\ connOpen = 1 <=>
        pc \in {"located", "newclient", "hello", "starttls", "mail", "rcpt", "quit"}

C23_Witness ==
    /\ Returned
    /\ connOpen = 0
    /\ hostIdx = 2
    /\ result.SMTPDetails # NilPtr
    /\ "Probe" \in netOps
    /\ lastErr = "SMTP client creation failed: " \o SMTPErrText

\* position of the pair (ips[i], ports[p]) in address-major order
PairRank(i, p) == (i - 1) * Len(ports) + p

\* C24: the locator starts at the first address and port 587, probes the
\* pair it stands at, and moves on a refusal to the next pair in
\* address-major order (ports 587, 25, 465 within an address); the pair that
\* accepts becomes the endpoint with nothing probed after it; the locator
\* fails only on a failed lookup or with every pair refused, and then it
\* does fail.
C24_FirstAcceptingPairWins ==
    /\ [][/\ (pc = "loop" /\ pc' = "probe") =>
               /\ PairRank(ipIdx', portIdx') = 1
               /\ "LookupIP" \in netOps'
          /\ (pc = "probe" /\ pc' \in {"probe", "located"}) =>
               /\ ipIdx <= Len(ips)
               /\ address' = Address(ips[ipIdx], ports[portIdx])
               /\ ips' = ips
          /\ (pc = "probe" /\ pc' = "probe") =>
               /\ PairRank(ipIdx', portIdx') = PairRank(ipIdx, portIdx) + 1
               /\ connOpen' = 0
          /\ (pc = "probe" /\ pc' = "located") =>
               /\ UNCHANGED <<ipIdx, portIdx>>
               /\ connOpen' = 1
          /\ pc = "located" =>
               /\ pc' = "dial"
               /\ smtpServer'.Server = mailServers[hostIdx]
               /\ smtpServer'.IPAddress = ips[ipIdx]
               /\ smtpServer'.Port = ports[portIdx]
               /\ address' = Address(ips[ipIdx], ports[portIdx])
               /\ netOps' = netOps
          /\ (Locating /\ hostIdx' = hostIdx + 1) =>
               \/ pc = "loop" /\ lastErr' \in LocatorErrors(mailServers[hostIdx])
                                           \ {"no available SMTP servers found for "
                                              \o mailServers[hostIdx]}
               \/ /\ pc = "probe"
                  /\ PairRank(ipIdx, portIdx) = Len(ips) * Len(ports) + 1
                  /\ lastErr' = "no available SMTP servers found for " \o mailServers[hostIdx]
          /\ (pc = "probe" /\ ipIdx > Len(ips)) =>
               (pc' = "loop" /\ hostIdx' = hostIdx + 1)
         ]_vars
    /\ [](pc \in {"probe", "located"} =>
            /\ ipIdx \in 1..(Len(ips) + 1)
            /\ portIdx \in 1..Len(ports)
            /\ (ipIdx > Len(ips) => portIdx = 1))

C24_Witness ==
    /\ pc = "located"
    /\ Len(ips) = 2
    /\ ips[1] # ips[2]
    /\ ipIdx = 1
    /\ ports[portIdx] = "25"
    /\ address = Address(ips[1], "25")

\* the steps of one call of TryConnectingSMTP, in program order
AttemptSteps == <<"dial", "newclient", "hello", "starttls", "mail", "rcpt", "quit", "tried">>

\* the steps one iteration of the loop over the hosts can take: leaving the
\* loop head, one probe per pair and the return of the locator, then the
\* attempt without TLS and the attempt with TLS
HostSpan == 1 + (Len(ports) * MaxIPs + 2) + 2 * Len(AttemptSteps)

\* how far the call has come: the host it is at, then the position inside
\* the iteration for that host
Rank ==
    CASE pc = "start" -> 0
      [] pc = "mx" -> 1
      [] pc = "hostname" -> 2
      [] pc = "loop" -> hostIdx * HostSpan
      [] pc = "probe" -> hostIdx * HostSpan + PairRank(ipIdx, portIdx)
      [] pc = "located" -> hostIdx * HostSpan + Len(ports) * MaxIPs + 2
      [] pc \in {"done", "panic"} -> (Len(mailServers) + 2) * HostSpan
      [] OTHER -> hostIdx * HostSpan + Len(ports) * MaxIPs + 2
                  + (IF useTLS THEN Len(AttemptSteps) ELSE 0)
                  + (CHOOSE i \in 1..Len(AttemptSteps) : AttemptSteps[i] = pc)

\* the call has ended: ValidateEmail returned, or the goroutine died in it
Terminated == pc \in {"done", "panic"}

\* C25: every step of ValidateEmail moves the call forward in program order
\* (host by host, inside a host the locator's pairs and then at most the
\* plain and the TLS attempt, inside an attempt each step once), the
\* position is bounded by the number N of hosts, hosts are entered one by
\* one in order, an attempt is only made for one of the N hosts, and a call
\* that has not ended can always take a step: the call ends.
C25_TerminatesWithinBounds ==
    /\ [][/\ Rank' > Rank
          /\ hostIdx' \in {hostIdx, hostIdx + 1}
          /\ pc # "mx" => mailServers' = mailServers
          /\ (pc' = "dial" /\ pc # "dial") =>
                /\ hostIdx' \in 1..Len(mailServers)
                /\ (pc = "located" /\ ~useTLS') \/ (pc = "tried" /\ ~useTLS /\ useTLS')
         ]_vars
    /\ [](Rank \in 0..((Len(mailServers) + 2) * HostSpan))
    /\ [](pc \in {"loop", "probe", "located"} \cup {AttemptSteps[i] : i \in 1..Len(AttemptSteps)}
            => hostIdx \in 1..(Len(mailServers) + 1))
    /\ [](Terminated \/ ENABLED Next)

C25_Witness ==
    /\ Returned
    /\ Len(mailServers) = MaxHosts
    /\ hostIdx = MaxHosts + 1
    /\ lastErr = "MAIL FROM failed: " \o SMTPErrText
    /\ Rank = (Len(mailServers) + 2) * HostSpan

\* C26: once the MX lookup has succeeded, mailServers has one entry per
\* record of the answer, at the same position, which is the record's host
\* without its trailing dot; the host an endpoint was located for is the
\* entry the loop stands at.
C26_HostsInAnswerOrder ==
    /\ (pc \notin {"start", "mx"} /\ mx.err = NilErr) =>
        /\ Len(mailServers) = Len(mx.records)
        /\ \A i \in 1..Len(mx.records) :
            LET r == mx.records[i]
                h == mailServers[i]
            IN  /\ IF SubSeq(r, Len(r), Len(r)) = "." THEN r = h \o "." ELSE r = h
                /\ SubSeq(h, Len(h), Len(h)) # "."
    /\ smtpServer # NilPtr =>
        /\ hostIdx \in 1..Len(mailServers)
        /\ smtpServer.Server = mailServers[hostIdx]

C26_Witness ==
    /\ mx.records = <<"mx2.d.com", "mx1.d.com.">>
    /\ mailServers = <<"mx2.d.com", "mx1.d.com">>
    /\ hostIdx = 2
    /\ smtpServer # NilPtr
    /\ smtpServer.Server = "mx1.d.com"
    /\ lastErr \in LocatorErrors("mx2.d.com")

\* C27: the endpoint of a returned verdict has UsedTLS true exactly when its
\* port is 465.
C27_UsedTLSIffPort465 ==
    (Returned /\ result.SMTPDetails # NilPtr) =>
        (result.SMTPDetails.UsedTLS <=> result.SMTPDetails.Port = "465")

\* the returned verdict is the one a call of TryConnectingSMTP handed back
\* with a nil error (validator.go:249-262)
FromAttempt ==
    /\ Returned
    /\ tryResult # NilPtr
    /\ tryErr = NilErr
    /\ Len(sent) > 0
    /\ sent[Len(sent)] = "QUIT"

\* C28: a returned verdict has an endpoint exactly when an attempt produced
\* it; the endpoint is then the one the locator returned for the host the
\* loop stands at, whose address and port the attempt dialled, and the verdict
\* is otherwise the attempt's; every other returned verdict is the
\* invalid-format, the no-MX, a hostname-failure or the exhausted-hosts
\* verdict, without endpoint.
C28_EndpointIffFromAttempt ==
    Returned =>
        /\ result.SMTPDetails # NilPtr <=> FromAttempt
        /\ FromAttempt =>
            /\ result = [tryResult EXCEPT !.SMTPDetails = smtpServer]
            /\ hostIdx \in 1..Len(mailServers)
            /\ result.SMTPDetails.Server = mailServers[hostIdx]
            /\ result.SMTPDetails.Port \in {ports[i] : i \in 1..Len(ports)}
            /\ result.SMTPDetails.IPAddress \in IPs
            /\ address = Address(result.SMTPDetails.IPAddress, result.SMTPDetails.Port)
            /\ "Connect" \in netOps
        /\ ~FromAttempt =>
            \/ result = InvalidFormat /\ netOps = {}
            \/ result = NoMXRecords /\ netOps = {"LookupMX"}
            \/ /\ hostIdx = 0
               /\ result = Verdict(FALSE, FALSE, TRUE, result.ErrorMessage, NilPtr)
               /\ \E h \in HostnameAnswers, a \in SelfIPAnswers :
                    /\ GetHostname(h, a).err # NilErr
                    /\ result.ErrorMessage = GetHostname(h, a).err
            \/ /\ hostIdx = Len(mailServers) + 1
               /\ result = Verdict(FALSE, FALSE, TRUE, lastErr, NilPtr)

C28_Witness ==
    /\ Returned
    /\ result.SMTPDetails # NilPtr
    /\ hostIdx = 2
    /\ result.SMTPDetails.Server = mailServers[2]
    /\ result.SMTPDetails.Port = "465"
    /\ ~result.IsValid
    /\ useTLS

\* C29: a returned verdict with IsValid true comes from an attempt whose
\* commands are the greeting, possibly STARTTLS, MAIL FROM, RCPT TO for
\* recipientEmail itself and QUIT, sent on the connection to the address and
\* port of the endpoint attached to the verdict.
C29_ValidOnlyAfterRcpt ==
    (Returned /\ result.IsValid) =>
        /\ FromAttempt
        /\ Len(sent) \in {4, 5}
        /\ SentVerbs[1] = "EHLO"
        /\ Len(sent) = 5 => SentVerbs[2] = "STAR"
        /\ MailFromIs(sent, SenderEmail)
        /\ SentVerbs[Len(sent) - 2] = "MAIL"
        /\ sent[Len(sent) - 1] = "RCPT TO:<" \o recipientEmail \o ">"
        /\ result.SMTPDetails # NilPtr
        /\ address = Address(result.SMTPDetails.IPAddress, result.SMTPDetails.Port)
        /\ {"Connect", "Command"} \subseteq netOps

C29_Witness ==
    /\ Returned
    /\ result.IsValid
    /\ ~result.IsCatchAll
    /\ SentVerbs = <<"EHLO", "STAR", "MAIL", "RCPT", "QUIT">>
    /\ sent[4] = "RCPT TO:<" \o recipientEmail \o ">"
    /\ rcptErr = NilErr

====
